---- MODULE Spec2Model ----
(***************************************************************************)
(* YoKA KNUST information system (src/main.py): the credential store       *)
(* users.json behind AuthenticationSystem, the record store yoka_data.csv  *)
(* behind YokaInformationSystem, and the Streamlit page script that calls  *)
(* them with the session state of one browser session.                     *)
(*                                                                         *)
(* Files are modelled by what the code can observe of them.  users.json is *)
(* [exists, valid, doc, len]: whether the path exists, whether its bytes   *)
(* are the JSON document json.dump wrote, that document as the ordered     *)
(* list of its entries, and its length in bytes (which decides what a      *)
(* write at offset 0 leaves behind).  yoka_data.csv is [exists, header,    *)
(* body]: the header line as the list of column names and the data lines   *)
(* as the characters to_csv wrote.                                         *)
(***************************************************************************)
EXTENDS Integers, Sequences, FiniteSets, TLC

VARIABLES users_file,      \* users.json
          users_writable,  \* whether users.json (and its directory) can be opened for writing
          data_file,       \* yoka_data.csv
          data_writable,   \* whether yoka_data.csv can be opened for writing
          session_state,   \* st.session_state of the browser session
          page,            \* the page the last script run rendered
          last,            \* the last completed call or script run: [op, args, result]
          procs            \* the concurrent requests on the credential store

vars == <<users_file, users_writable, data_file, data_writable,
          session_state, page, last, procs>>

(***************************************************************************)
(* Input domains.                                                          *)
(***************************************************************************)
Usernames == {"admin", "bob", "al"}
Passwords == {"admin123", "pw1"}
Roles == {"user", "admin"}
Emails == {"", "bob@x.com"}

\* hashlib.sha256(password.encode()).hexdigest(), tabulated on Passwords
hash_password(password) ==
    CASE password = "admin123" ->
           "240be518fabd2724ddb6f04eeb1da5967448d7e831c08c8fa822809f74c720a9"
      [] password = "pw1" ->
           "c592df4a86933b92addc9842402ddf198c638ea9be58916ee6e3734e1e3152f8"
      [] password = "pw2" ->
           "93915a0a4bf8f634cb1856494dd4304472ad46b9827f541f76b6761c49cc55b0"

verify_password(password, hashed) == hash_password(password) = hashed

(***************************************************************************)
(* Python dicts as ordered lists of [username, password, role, email].     *)
(***************************************************************************)
Keys(users) == {users[i].username : i \in 1..Len(users)}

Has(users, username) == username \in Keys(users)

Get(users, username) ==
    users[CHOOSE i \in 1..Len(users) : users[i].username = username]

\* users[username] = {...}: replaces the value of a present key, appends a new key
DictSet(users, entry) ==
    IF Has(users, entry.username)
    THEN [i \in 1..Len(users) |->
            IF users[i].username = entry.username THEN entry ELSE users[i]]
    ELSE Append(users, entry)

(***************************************************************************)
(* users.json on disk.                                                     *)
(***************************************************************************)
Absent == [exists |-> FALSE, valid |-> FALSE, doc |-> <<>>, len |-> 0]

RECURSIVE EntriesLen(_)
\* bytes json.dump(users, f, indent=4) spends on the entries of users
EntriesLen(users) ==
    IF users = <<>> THEN 0
    ELSE LET e == Head(users)
         IN  (Len(e.username) + 10) + (Len(e.password) + 24)
               + (Len(e.role) + 20) + (Len(e.email) + 20) + 5
               + (IF Len(users) > 1 THEN 2 ELSE 0)
               + EntriesLen(Tail(users))

\* len(json.dumps(users, indent=4)): "{}" for the empty dict, else
\* "{\n" entries "\n}" with the entries joined by ",\n"
JsonLen(users) == IF users = <<>> THEN 2 ELSE EntriesLen(users) + 4

\* open(self.users_file, 'w'): creates the file or truncates it to zero bytes
open_w(file) == [exists |-> TRUE, valid |-> FALSE, doc |-> <<>>, len |-> 0]

\* a variant that writes the dict as it was before its last key was set
json_dump_stale(file, users) ==
    LET old == SubSeq(users, 1, Len(users) - 1)
    IN  IF file.len > JsonLen(old)
        THEN [exists |-> TRUE, valid |-> FALSE, doc |-> <<>>, len |-> file.len]
        ELSE [exists |-> TRUE, valid |-> TRUE, doc |-> old, len |-> JsonLen(old)]

\* json.dump(users, f, indent=4) and the close of f: the document is written
\* at offset 0 of whatever the file holds by then. Bytes another writer put
\* beyond the document's end stay, and the file is then no JSON document.
json_dump(file, users) ==
    IF file.len > JsonLen(users)
    THEN [exists |-> TRUE, valid |-> FALSE, doc |-> <<>>, len |-> file.len]
    ELSE [exists |-> TRUE, valid |-> TRUE, doc |-> users, len |-> JsonLen(users)]

RECURSIVE ObjectOf(_, _)
\* the dict json.load builds from a document's pairs, inserting them in order
ObjectOf(doc, users) ==
    IF doc = <<>> THEN users
    ELSE ObjectOf(Tail(doc), DictSet(users, Head(doc)))

\* open(self.users_file, 'r') and json.load(f): the dict, or the exception
json_load(file) ==
    IF ~file.exists
    THEN [ok |-> FALSE, users |-> <<>>,
          err |-> "[Errno 2] No such file or directory: 'users.json'"]
    ELSE IF ~file.valid
    THEN [ok |-> FALSE, users |-> <<>>,
          err |-> IF file.len = 0
                  THEN "Expecting value: line 1 column 1 (char 0)"
                  ELSE "Extra data"]
    ELSE [ok |-> TRUE, users |-> ObjectOf(file.doc, <<>>), err |-> ""]

PermissionDenied == "[Errno 13] Permission denied"

(***************************************************************************)
(* AuthenticationSystem, each call run to completion.  A call yields       *)
(* [file, result]: the file it leaves and what it returns; a result        *)
(* <<"raise", e>> is an exception that leaves the call.                    *)
(***************************************************************************)
default_users ==
    << [username |-> "admin", password |-> hash_password("admin123"),
        role |-> "admin", email |-> "admin@yoka.knust.edu.gh"] >>

\* a variant that writes the default users whether or not the file exists
initialize_users_always(file, writable) ==
    IF writable
    THEN [file |-> json_dump(open_w(file), default_users), result |-> <<"return">>]
    ELSE [file |-> file, result |-> <<"raise", PermissionDenied>>]

initialize_users(file, writable) ==
    IF ~file.exists
    THEN IF writable
         THEN [file |-> json_dump(open_w(file), default_users), result |-> <<"return">>]
         ELSE [file |-> file, result |-> <<"raise", PermissionDenied>>]
    ELSE [file |-> file, result |-> <<"return">>]

NewEntry(username, password, role, email) ==
    [username |-> username, password |-> hash_password(password),
     role |-> role, email |-> email]

\* a variant without the "username in users" test: the entry is overwritten
add_user_overwrite(file, writable, username, password, role, email) ==
    LET ld == json_load(file)
    IN  IF ~ld.ok
        THEN [file |-> file, result |-> <<FALSE, "Error creating user: " \o ld.err>>]
        ELSE IF ~writable
        THEN [file |-> file,
              result |-> <<FALSE, "Error creating user: " \o PermissionDenied>>]
        ELSE [file |-> json_dump(open_w(file),
                                 DictSet(ld.users,
                                         NewEntry(username, password, role, email))),
              result |-> <<TRUE, "User created successfully">>]

add_user(file, writable, username, password, role, email) ==
    LET ld == json_load(file)
    IN  IF ~ld.ok
        THEN [file |-> file, result |-> <<FALSE, "Error creating user: " \o ld.err>>]
        ELSE IF Has(ld.users, username)
        THEN [file |-> file, result |-> <<FALSE, "Username already exists">>]
        ELSE IF ~writable
        THEN [file |-> file,
              result |-> <<FALSE, "Error creating user: " \o PermissionDenied>>]
        ELSE [file |-> json_dump(open_w(file),
                                 DictSet(ld.users,
                                         NewEntry(username, password, role, email))),
              result |-> <<TRUE, "User created successfully">>]

\* a variant that tells an unknown username from a wrong password
authenticate_leaky(file, username, password) ==
    LET ld == json_load(file)
    IN  IF ~ld.ok
        THEN <<FALSE, "Authentication error: " \o ld.err>>
        ELSE IF ~Has(ld.users, username)
        THEN <<FALSE, "Unknown user">>
        ELSE IF verify_password(password, Get(ld.users, username).password)
        THEN <<TRUE, Get(ld.users, username).role>>
        ELSE <<FALSE, "Invalid credentials">>

authenticate(file, username, password) ==
    LET ld == json_load(file)
    IN  IF ~ld.ok
        THEN <<FALSE, "Authentication error: " \o ld.err>>
        ELSE IF Has(ld.users, username)
                /\ verify_password(password, Get(ld.users, username).password)
        THEN <<TRUE, Get(ld.users, username).role>>
        ELSE <<FALSE, "Invalid credentials">>

get_users(file) ==
    LET ld == json_load(file)
    IN  IF ld.ok THEN ld.users ELSE <<>>

(***************************************************************************)
(* Python values and pandas cells: a str holds its characters, an int or a *)
(* float its (whole) number, NaN nothing.                                  *)
(***************************************************************************)
PyStr(chars) == [t |-> "str", v |-> chars]
PyInt(n) == [t |-> "int", v |-> n]
PyFloat(n) == [t |-> "float", v |-> n]
NaN == [t |-> "nan", v |-> 0]

\* a == b of Python for a str or int a and a loaded cell b
PyEq(a, b) ==
    CASE b.t = "nan" -> FALSE
      [] b.t = "str" -> a.t = "str" /\ a.v = b.v
      [] OTHER -> a.t = "int" /\ a.v = b.v

Digit == <<"0", "1", "2", "3", "4", "5", "6", "7", "8", "9">>

IsDigit(c) == \E d \in 1..10 : Digit[d] = c

DigitValue(c) == (CHOOSE d \in 1..10 : Digit[d] = c) - 1

RECURSIVE DigitsOf(_)
\* str(n) for n >= 0
DigitsOf(n) ==
    IF n < 10 THEN <<Digit[n + 1]>>
    ELSE DigitsOf(n \div 10) \o <<Digit[(n % 10) + 1]>>

(***************************************************************************)
(* DataFrame.to_csv(index=False): csv.QUOTE_MINIMAL, delimiter ",",        *)
(* quotechar and doubled quote, line terminator "\n".                      *)
(***************************************************************************)
\* the text of one cell: str as it is, int in decimal, NaN as na_rep=''
CellText(value) ==
    CASE value.t = "str" -> value.v
      [] value.t = "nan" -> <<>>
      [] OTHER -> DigitsOf(value.v)

NeedsQuote(text) == \E i \in 1..Len(text) : text[i] \in {",", "\"", "\n", "\r"}

RECURSIVE DoubleQuotes(_)
DoubleQuotes(text) ==
    IF text = <<>> THEN <<>>
    ELSE (IF Head(text) = "\"" THEN <<"\"", "\"">> ELSE <<Head(text)>>)
           \o DoubleQuotes(Tail(text))

QuoteMinimal(text) ==
    IF NeedsQuote(text) THEN <<"\"">> \o DoubleQuotes(text) \o <<"\"">> ELSE text

RECURSIVE JoinCells(_)
JoinCells(cells) ==
    IF Len(cells) = 1 THEN QuoteMinimal(CellText(cells[1]))
    ELSE QuoteMinimal(CellText(Head(cells))) \o <<",">> \o JoinCells(Tail(cells))

\* one written line; a row of a single empty cell is written as ""
CsvLine(cells) ==
    IF Len(cells) = 1 /\ CellText(cells[1]) = <<>> THEN <<"\"", "\"", "\n">>
    ELSE JoinCells(cells) \o <<"\n">>

RECURSIVE CsvLines(_)
CsvLines(rows) ==
    IF rows = <<>> THEN <<>> ELSE CsvLine(Head(rows)) \o CsvLines(Tail(rows))

(***************************************************************************)
(* pandas.read_csv with its defaults: the tokenizer, then the dtype each   *)
(* column gets from all of its tokens.                                     *)
(***************************************************************************)
RECURSIVE RunEnd(_, _)
\* where the unquoted run from i ends: at the next delimiter or line end
RunEnd(text, i) ==
    IF i > Len(text) \/ text[i] \in {",", "\n"} THEN i ELSE RunEnd(text, i + 1)

RECURSIVE CloseQuote(_, _)
\* where the quoted field read from j on closes: at the first quote that no
\* quote follows (a doubled quote is a character of the field)
CloseQuote(text, j) ==
    IF j > Len(text) THEN j
    ELSE IF text[j] # "\"" THEN CloseQuote(text, j + 1)
    ELSE IF j < Len(text) /\ text[j + 1] = "\"" THEN CloseQuote(text, j + 2)
    ELSE j

RECURSIVE Unescape(_)
\* the characters of a quoted field: each doubled quote is one quote
Unescape(quoted) ==
    IF quoted = <<>> THEN <<>>
    ELSE IF Head(quoted) = "\"" /\ Len(quoted) > 1 /\ quoted[2] = "\""
    THEN <<"\"">> \o Unescape(Tail(Tail(quoted)))
    ELSE <<Head(quoted)>> \o Unescape(Tail(quoted))

\* the field starting at i: its characters and the position of what ends it
FieldAt(text, i) ==
    IF text[i] = "\""
    THEN LET c == CloseQuote(text, i + 1)
             e == IF c > Len(text) THEN c ELSE RunEnd(text, c + 1)
         IN  [value |-> Unescape(SubSeq(text, i + 1, c - 1))
                          \o SubSeq(text, c + 1, e - 1),
              end |-> e]
    ELSE LET e == RunEnd(text, i)
         IN  [value |-> SubSeq(text, i, e - 1), end |-> e]

RECURSIVE Tokenize(_, _, _, _)
\* the rows of fields in text from position i on; blank lines are skipped
Tokenize(text, i, row, rows) ==
    IF i > Len(text)
    THEN IF row = <<>> THEN rows ELSE Append(rows, Append(row, <<>>))
    ELSE IF text[i] = "\n" /\ row = <<>>
    THEN Tokenize(text, i + 1, <<>>, rows)
    ELSE LET f == FieldAt(text, i)
         IN  IF f.end <= Len(text) /\ text[f.end] = ","
             THEN Tokenize(text, f.end + 1, Append(row, f.value), rows)
             ELSE Tokenize(text, f.end + 1, <<>>, Append(rows, Append(row, f.value)))

\* the default na_values that the model's alphabet can spell
NAValues == {<<>>, <<"N", "A">>}

IsNA(token) == token \in NAValues

\* the tokens the integer parser takes: digits only (leading zeros included)
IsIntLiteral(token) == token # <<>> /\ \A i \in 1..Len(token) : IsDigit(token[i])

RECURSIVE IntOf(_, _)
IntOf(token, acc) ==
    IF token = <<>> THEN acc
    ELSE IntOf(Tail(token), acc * 10 + DigitValue(Head(token)))

\* the token of column j in a row; a short row is padded with NaN
TokenAt(row, j) == IF j <= Len(row) THEN row[j] ELSE <<>>

\* the dtype of column j: float64 when all is NaN, int64 when every token is
\* an integer, float64 when the rest is NaN, else object
ColumnType(rows, j) ==
    LET toks == {TokenAt(rows[r], j) : r \in 1..Len(rows)}
        vals == {t \in toks : ~IsNA(t)}
    IN  IF vals = {} THEN "float"
        ELSE IF \A t \in vals : IsIntLiteral(t)
        THEN IF vals = toks THEN "int" ELSE "float"
        ELSE "object"

\* the cell of a token in a column of dtype type
Cell(token, type) ==
    IF IsNA(token) THEN NaN
    ELSE IF type = "int" THEN PyInt(IntOf(token, 0))
    ELSE IF type = "float" THEN PyFloat(IntOf(token, 0))
    ELSE PyStr(token)

\* pd.DataFrame()
EmptyFrame == [columns |-> <<>>, rows |-> <<>>]

\* pd.read_csv(self.data_file): [ok, table, err]
read_csv(file) ==
    LET lines == Tokenize(file.body, 1, <<>>, <<>>)
        columns == IF file.header # <<>> THEN file.header ELSE Head(lines)
        rows == IF file.header # <<>> THEN lines ELSE Tail(lines)
    IN  IF file.header = <<>> /\ lines = <<>>
        THEN [ok |-> FALSE, table |-> EmptyFrame,
              err |-> "No columns to parse from file"]
        ELSE LET types == [j \in 1..Len(columns) |-> ColumnType(rows, j)]
             IN  [ok |-> TRUE,
                  table |-> [columns |-> columns,
                             rows |-> [r \in 1..Len(rows) |->
                                         [j \in 1..Len(columns) |->
                                            Cell(TokenAt(rows[r], j), types[j])]]],
                  err |-> ""]

(***************************************************************************)
(* YokaInformationSystem, each call run to completion.  A dict is the      *)
(* ordered list of its [key, value] items.  The schema is the columns the  *)
(* required-field check reads, two optional free-text columns and          *)
(* submitted_by, in the order of the source; the columns left out are      *)
(* optional text inputs written and read like interests_skills.            *)
(***************************************************************************)
columns ==
    <<"official_name", "date_of_birth", "age", "phone_numbers", "email",
      "interests_skills", "business_name_type", "school_name", "program",
      "current_class", "church_branch", "branch_pastor", "submitted_by">>

NoFile == [exists |-> FALSE, header |-> <<>>, body |-> <<>>]

initialize_data(file, writable) ==
    IF ~file.exists
    THEN IF writable
         THEN [file |-> [exists |-> TRUE, header |-> columns, body |-> <<>>],
               result |-> <<"return">>]
         ELSE [file |-> file, result |-> <<"raise", PermissionDenied>>]
    ELSE [file |-> file, result |-> <<"return">>]

\* pd.DataFrame([data])
FrameOf(data) ==
    [columns |-> [j \in 1..Len(data) |-> data[j].key],
     rows |-> << [j \in 1..Len(data) |-> data[j].value] >>]

save_data(file, writable, data) ==
    LET df == FrameOf(data)
    IN  IF ~writable
        THEN [file |-> file, result |-> <<"raise", PermissionDenied>>]
        ELSE IF file.exists
        THEN [file |-> [file EXCEPT !.body = @ \o CsvLines(df.rows)],
              result |-> <<"return">>]
        ELSE [file |-> [exists |-> TRUE, header |-> df.columns,
                        body |-> CsvLines(df.rows)],
              result |-> <<"return">>]

\* [table, error]: the DataFrame returned and the text given to st.error
load_data(file) ==
    IF file.exists
    THEN LET rd == read_csv(file)
         IN  IF rd.ok THEN [table |-> rd.table, error |-> ""]
             ELSE [table |-> EmptyFrame, error |-> "Error loading data: " \o rd.err]
    ELSE [table |-> EmptyFrame, error |-> ""]

\* DataFrame.empty
IsEmpty(table) == table.rows = <<>> \/ table.columns = <<>>

(***************************************************************************)
(* The registration form of main_application: the widgets' values, the     *)
(* required-field check and the record that is saved.                      *)
(***************************************************************************)
PyDate(y, m, d) == [t |-> "date", v |-> <<y, m, d>>]

\* bool(value): a str is falsy when empty, a number when 0, a date never
Truthy(value) ==
    CASE value.t = "str" -> value.v # <<>>
      [] value.t = "int" -> value.v # 0
      [] OTHER -> TRUE

Pad2(n) == IF n < 10 THEN <<"0">> \o DigitsOf(n) ELSE DigitsOf(n)

\* date.strftime("%Y-%m-%d") for a four-digit year
strftime(date) ==
    PyStr(DigitsOf(date.v[1]) \o <<"-">> \o Pad2(date.v[2]) \o <<"-">> \o Pad2(date.v[3]))

\* a variant of the required-field dict without its "Email" item
required_fields_no_email(form) ==
    << [key |-> "Official Name", value |-> form.official_name],
       [key |-> "Date of Birth", value |-> form.date_of_birth],
       [key |-> "Age", value |-> form.age],
       [key |-> "Phone Numbers", value |-> form.phone_numbers],
       [key |-> "School Name", value |-> form.school_name],
       [key |-> "Program", value |-> form.program],
       [key |-> "Current Class", value |-> form.current_class],
       [key |-> "Church Branch", value |-> form.church_branch],
       [key |-> "Branch Pastor", value |-> form.branch_pastor] >>

required_fields(form) ==
    << [key |-> "Official Name", value |-> form.official_name],
       [key |-> "Date of Birth", value |-> form.date_of_birth],
       [key |-> "Age", value |-> form.age],
       [key |-> "Phone Numbers", value |-> form.phone_numbers],
       [key |-> "Email", value |-> form.email],
       [key |-> "School Name", value |-> form.school_name],
       [key |-> "Program", value |-> form.program],
       [key |-> "Current Class", value |-> form.current_class],
       [key |-> "Church Branch", value |-> form.church_branch],
       [key |-> "Branch Pastor", value |-> form.branch_pastor] >>

RECURSIVE MissingOf(_)
MissingOf(fields) ==
    IF fields = <<>> THEN <<>>
    ELSE (IF Truthy(Head(fields).value) THEN <<>> ELSE <<Head(fields).key>>)
           \o MissingOf(Tail(fields))

missing_fields(form) == MissingOf(required_fields(form))

form_data(form, username) ==
    << [key |-> "official_name", value |-> form.official_name],
       [key |-> "date_of_birth", value |-> strftime(form.date_of_birth)],
       [key |-> "age", value |-> form.age],
       [key |-> "phone_numbers", value |-> form.phone_numbers],
       [key |-> "email", value |-> form.email],
       [key |-> "interests_skills", value |-> form.interests_skills],
       [key |-> "business_name_type", value |-> form.business_name_type],
       [key |-> "school_name", value |-> form.school_name],
       [key |-> "program", value |-> form.program],
       [key |-> "current_class", value |-> form.current_class],
       [key |-> "church_branch", value |-> form.church_branch],
       [key |-> "branch_pastor", value |-> form.branch_pastor],
       [key |-> "submitted_by", value |-> username] >>

(***************************************************************************)
(* Bounds and the inputs drawn within them.                                *)
(***************************************************************************)
MaxRows == 2       \* data rows yoka_data.csv grows to
MaxMissing == 1    \* required inputs one submission leaves empty

\* a username as the characters written to submitted_by
Chars(s) ==
    CASE s = "admin" -> <<"a", "d", "m", "i", "n">>
      [] s = "bob" -> <<"b", "o", "b">>
      [] s = "al" -> <<"a", "l">>

TextInputs == {PyStr(<<>>), PyStr(<<"x">>)}

Phones == {PyStr(<<"0", "2", "4">>), PyStr(<<"0", "2", ",", "0", "5">>)}

Interests ==
    {PyStr(<<>>), PyStr(<<"a", ",", "b">>), PyStr(<<"a", "\"">>),
     PyStr(<<"a", "\n", "b">>), PyStr(<<"N", "A">>)}

Business == {PyStr(<<>>), PyStr(<<"b">>)}

\* the forms a user can submit with inputs from the given sets
FormsOf(phones, interests, business) ==
    {f \in [official_name : TextInputs,
            date_of_birth : {PyDate(2000, 1, 2)},
            age : {PyInt(21)},
            phone_numbers : phones \cup {PyStr(<<>>)},
            email : TextInputs,
            interests_skills : interests,
            business_name_type : business,
            school_name : TextInputs,
            program : TextInputs,
            current_class : TextInputs,
            church_branch : TextInputs,
            branch_pastor : TextInputs] :
       Len(missing_fields(f)) <= MaxMissing}

\* the records of the forms that pass the required-field check
RecordsOf(forms, usernames) ==
    {form_data(f, PyStr(Chars(u))) :
       f \in {g \in forms : missing_fields(g) = <<>>}, u \in usernames}

Records == RecordsOf(FormsOf(Phones, Interests, Business), {"bob"})

SmallRecords ==
    RecordsOf(FormsOf({PyStr(<<"0", "2", ",", "0", "5">>)},
                      {PyStr(<<"a", ",", "b">>)}, {PyStr(<<"b">>)}),
              {"bob"})

\* the data rows in yoka_data.csv
RowCount(file) == Len(Tokenize(file.body, 1, <<>>, <<>>))

(***************************************************************************)
(* State.                                                                  *)
(***************************************************************************)
NumProcs == 2      \* requests that work on users.json at the same time

Procs == 1..NumProcs

\* a request that is not inside a call
Idle == [pc |-> "idle", op |-> "none", args |-> <<>>, users |-> <<>>,
         result |-> <<>>]

\* st.session_state as the function from the keys it holds to their values
NoSession == [k \in {} |-> FALSE]

NoPage == [name |-> "none", widgets |-> {}, show_data |-> FALSE]

Called(op, args, result) == [op |-> op, args |-> args, result |-> result]

Init ==
    /\ users_file = Absent
    /\ users_writable = TRUE
    /\ data_file = NoFile
    /\ data_writable = TRUE
    /\ session_state = NoSession
    /\ page = NoPage
    /\ last = Called("start", <<>>, <<>>)
    /\ procs = [p \in Procs |-> Idle]

(***************************************************************************)
(* The calls of the interface, one at a time.                              *)
(***************************************************************************)
InitializeUsers ==
    LET r == initialize_users(users_file, users_writable)
    IN  /\ users_file' = r.file
        /\ last' = Called("initialize_users", <<>>, r.result)
        /\ UNCHANGED <<users_writable, data_file, data_writable,
                       session_state, page, procs>>

AddUser(username, password, role, email) ==
    LET r == add_user(users_file, users_writable, username, password, role, email)
    IN  /\ users_file' = r.file
        /\ last' = Called("add_user", <<username, password, role, email>>, r.result)
        /\ UNCHANGED <<users_writable, data_file, data_writable,
                       session_state, page, procs>>

Authenticate(username, password) ==
    /\ last' = Called("authenticate", <<username, password>>,
                      authenticate(users_file, username, password))
    /\ UNCHANGED <<users_file, users_writable, data_file, data_writable,
                   session_state, page, procs>>

GetUsers ==
    /\ last' = Called("get_users", <<>>, get_users(users_file))
    /\ UNCHANGED <<users_file, users_writable, data_file, data_writable,
                   session_state, page, procs>>

InitializeData ==
    LET r == initialize_data(data_file, data_writable)
    IN  /\ data_file' = r.file
        /\ last' = Called("initialize_data", <<>>, r.result)
        /\ UNCHANGED <<users_file, users_writable, data_writable,
                       session_state, page, procs>>

SaveData(data) ==
    LET r == save_data(data_file, data_writable, data)
    IN  /\ data_file' = r.file
        /\ last' = Called("save_data", data, r.result)
        /\ UNCHANGED <<users_file, users_writable, data_writable,
                       session_state, page, procs>>

LoadData ==
    /\ last' = Called("load_data", <<>>, load_data(data_file))
    /\ UNCHANGED <<users_file, users_writable, data_file, data_writable,
                   session_state, page, procs>>

Next ==
    \/ InitializeUsers
    \/ \E username \in Usernames, password \in Passwords, role \in Roles,
          email \in Emails : AddUser(username, password, role, email)
    \/ \E username \in Usernames, password \in Passwords :
          Authenticate(username, password)
    \/ GetUsers
    \/ InitializeData
    \/ RowCount(data_file) < MaxRows /\ \E data \in SmallRecords : SaveData(data)
    \/ LoadData

Spec == Init /\ [][Next]_vars

NextRec ==
    \/ InitializeData
    \/ RowCount(data_file) < MaxRows /\ \E data \in Records : SaveData(data)
    \/ LoadData

SpecRec == Init /\ [][NextRec]_vars

(***************************************************************************)
(* The files' environment: a backing file is removed, emptied or made      *)
(* unwritable behind the program's back (SpecFault).                       *)
(***************************************************************************)
EnvUsersFile(file) ==
    /\ users_file' = file
    /\ UNCHANGED <<users_writable, data_file, data_writable, session_state,
                   page, last, procs>>

EnvUsersWritable ==
    /\ users_writable' = ~users_writable
    /\ UNCHANGED <<users_file, data_file, data_writable, session_state, page,
                   last, procs>>

EnvDataFile(file) ==
    /\ data_file' = file
    /\ UNCHANGED <<users_file, users_writable, data_writable, session_state,
                   page, last, procs>>

EnvDataWritable ==
    /\ data_writable' = ~data_writable
    /\ UNCHANGED <<users_file, users_writable, data_file, session_state, page,
                   last, procs>>

NextFault ==
    \/ InitializeUsers
    \/ \E password \in Passwords, email \in Emails :
          AddUser("bob", password, "user", email)
    \/ \E username \in {"admin", "bob"}, password \in Passwords :
          Authenticate(username, password)
    \/ GetUsers
    \/ InitializeData
    \/ RowCount(data_file) < MaxRows /\ \E data \in SmallRecords : SaveData(data)
    \/ LoadData
    \/ EnvUsersFile(Absent)
    \/ EnvUsersFile(open_w(users_file))
    \/ EnvUsersWritable
    \/ EnvDataFile(NoFile)
    \/ EnvDataFile([exists |-> TRUE, header |-> <<>>, body |-> <<>>])
    \/ EnvDataWritable

SpecFault == Init /\ [][NextFault]_vars

(***************************************************************************)
(* Requests that run at the same time (SpecConc).  Streamlit runs each     *)
(* session's script in a thread of its own and nothing locks users.json,   *)
(* so the file operations of two calls interleave: the read of the whole   *)
(* file, the open for writing (which truncates) and the write of the       *)
(* document when the file is closed.                                       *)
(***************************************************************************)
Returned(p, op, args, result) ==
    /\ procs' = [procs EXCEPT ![p] = [pc |-> "idle", op |-> op, args |-> args,
                                      users |-> <<>>, result |-> result]]
    /\ last' = Called(op, args, result)

\* add_user up to the assignment users[username] = {...}
AddUserLoad(p, username, password, role, email) ==
    LET ld == json_load(users_file)
        args == <<username, password, role, email>>
    IN  /\ procs[p].pc = "idle"
        /\ IF ~ld.ok
           THEN Returned(p, "add_user", args,
                         <<FALSE, "Error creating user: " \o ld.err>>)
           ELSE IF Has(ld.users, username)
           THEN Returned(p, "add_user", args, <<FALSE, "Username already exists">>)
           ELSE /\ procs' = [procs EXCEPT ![p] =
                               [pc |-> "add_user_open", op |-> "add_user",
                                args |-> args,
                                users |-> DictSet(ld.users,
                                                  NewEntry(username, password,
                                                           role, email)),
                                result |-> <<>>]]
                /\ UNCHANGED last
        /\ UNCHANGED <<users_file, users_writable, data_file, data_writable,
                       session_state, page>>

\* open(self.users_file, 'w') of add_user
AddUserOpen(p) ==
    /\ procs[p].pc = "add_user_open"
    /\ users_file' = open_w(users_file)
    /\ procs' = [procs EXCEPT ![p].pc = "add_user_dump"]
    /\ UNCHANGED <<users_writable, data_file, data_writable, session_state,
                   page, last>>

\* json.dump(users, f, indent=4), the close of f and the return of add_user
AddUserDump(p) ==
    /\ procs[p].pc = "add_user_dump"
    /\ users_file' = json_dump(users_file, procs[p].users)
    /\ Returned(p, "add_user", procs[p].args, <<TRUE, "User created successfully">>)
    /\ UNCHANGED <<users_writable, data_file, data_writable, session_state, page>>

\* os.path.exists(self.users_file) of initialize_users
InitializeExists(p) ==
    /\ procs[p].pc = "idle"
    /\ IF users_file.exists
       THEN Returned(p, "initialize_users", <<>>, <<"return">>)
       ELSE /\ procs' = [procs EXCEPT ![p] =
                           [pc |-> "initialize_open", op |-> "initialize_users",
                            args |-> <<>>, users |-> default_users,
                            result |-> <<>>]]
            /\ UNCHANGED last
    /\ UNCHANGED <<users_file, users_writable, data_file, data_writable,
                   session_state, page>>

\* open(self.users_file, 'w') of initialize_users
InitializeOpen(p) ==
    /\ procs[p].pc = "initialize_open"
    /\ users_file' = open_w(users_file)
    /\ procs' = [procs EXCEPT ![p].pc = "initialize_dump"]
    /\ UNCHANGED <<users_writable, data_file, data_writable, session_state,
                   page, last>>

\* json.dump(default_users, f, indent=4) and the return of initialize_users
InitializeDump(p) ==
    /\ procs[p].pc = "initialize_dump"
    /\ users_file' = json_dump(users_file, procs[p].users)
    /\ Returned(p, "initialize_users", <<>>, <<"return">>)
    /\ UNCHANGED <<users_writable, data_file, data_writable, session_state, page>>

NextConc ==
    \/ \E p \in Procs, username \in {"bob", "al"} :
          AddUserLoad(p, username, "pw1", "user", "")
    \/ \E p \in Procs : AddUserOpen(p)
    \/ \E p \in Procs : AddUserDump(p)
    \/ \E p \in Procs : InitializeExists(p)
    \/ \E p \in Procs : InitializeOpen(p)
    \/ \E p \in Procs : InitializeDump(p)
    \/ \E username \in {"admin", "bob"}, password \in Passwords :
          Authenticate(username, password)
    \/ GetUsers

SpecConc == Init /\ [][NextConc]_vars

(***************************************************************************)
(* The page script (SpecApp): one run of src/main.py per action, for the   *)
(* click that triggers it.  A page is [name, widgets, show_data]: which    *)
(* page the run rendered, the widgets on it that a click can reach, and    *)
(* the value of the "Show Submitted Data" checkbox.                        *)
(***************************************************************************)
StateSet(ss, key, value) ==
    [k \in DOMAIN ss \cup {key} |-> IF k = key THEN value ELSE ss[k]]

StateDel(ss, keys) == [k \in DOMAIN ss \ keys |-> ss[k]]

\* st.session_state.get(key, default)
StateGet(ss, key, default) == IF key \in DOMAIN ss THEN ss[key] ELSE default

\* yoka_system = YokaInformationSystem(): both files as the constructors leave them
Constructed ==
    [users |-> initialize_users(users_file, users_writable).file,
     data |-> initialize_data(data_file, data_writable).file]

\* if 'logged_in' not in st.session_state: st.session_state.logged_in = False
Gate(ss) == IF "logged_in" \in DOMAIN ss THEN ss ELSE StateSet(ss, "logged_in", FALSE)

\* login_page with the Admin Registration expander rendered unconditionally
LoginPage_always(ss) ==
    [name |-> "login",
     widgets |-> {"login", "clear", "create_admin"},
     show_data |-> FALSE]

\* what login_page renders
LoginPage(ss) ==
    [name |-> "login",
     widgets |-> {"login", "clear"}
                   \cup (IF "logged_in" \notin DOMAIN ss THEN {"create_admin"} ELSE {}),
     show_data |-> FALSE]

\* what main_application renders when it runs to its end
MainPage(ss, show, data) ==
    [name |-> "main",
     widgets |-> {"logout", "yoka_info_form", "show_submitted_data"}
                   \cup (IF ss["role"] = "admin" THEN {"user_management"} ELSE {})
                   \cup (IF ss["role"] = "admin"
                            /\ StateGet(ss, "show_user_management", FALSE)
                         THEN {"add_user_form"} ELSE {})
                   \cup (IF show /\ ~IsEmpty(load_data(data).table)
                         THEN {"download"} ELSE {}),
     show_data |-> show]

\* the page of a run with session state ss: the login gate of the script
Render(ss, show, data) ==
    IF ~Gate(ss)["logged_in"] THEN LoginPage(Gate(ss)) ELSE MainPage(Gate(ss), show, data)

\* what a run did: the banner it showed (and the field names joined into
\* it), the calls its handlers made, whether the submitted data was displayed
\* and offered for download
RunResult(message, calls, pg) ==
    [message |-> message,
     missing |-> <<>>,
     calls |-> calls \o (IF pg.show_data THEN <<"load_data">> ELSE <<>>),
     displayed |-> "download" \in pg.widgets,
     download |-> "download" \in pg.widgets]

\* the first run of a session
OpenPage ==
    /\ page.name = "none"
    /\ users_file' = Constructed.users
    /\ data_file' = Constructed.data
    /\ session_state' = Gate(session_state)
    /\ page' = Render(session_state, FALSE, Constructed.data)
    /\ last' = Called("open", <<>>, RunResult("", <<>>, page'))
    /\ UNCHANGED <<users_writable, data_writable, procs>>

\* a click on the login page: Login, Clear or Create Admin Account
LoginPageRun(widget, username, password, email) ==
    LET c == Constructed
        ss == Gate(session_state)
        auth == authenticate(c.users, username, password)
        added == add_user(c.users, users_writable, username, password, "admin", email)
        filled == username # "" /\ password # ""
    IN  /\ page.name = "login"
        /\ widget \in page.widgets
        /\ data_file' = c.data
        /\ IF widget = "login" /\ filled /\ auth[1]
           THEN /\ session_state' =
                     StateSet(StateSet(StateSet(ss, "logged_in", TRUE),
                                       "username", username), "role", auth[2])
                /\ page' = Render(session_state', FALSE, c.data)
                /\ users_file' = c.users
                /\ last' = Called(widget, <<username, password, email>>,
                                  RunResult("Login successful!", <<"authenticate">>,
                                            page'))
           ELSE /\ session_state' = ss
                /\ page' = LoginPage(ss)
                /\ users_file' = IF widget = "create_admin" /\ filled
                                 THEN added.file ELSE c.users
                /\ last' = Called(widget, <<username, password, email>>,
                                  IF widget = "login"
                                  THEN IF filled
                                       THEN RunResult(auth[2], <<"authenticate">>, page')
                                       ELSE RunResult("Please enter both username and password",
                                                      <<>>, page')
                                  ELSE IF widget = "create_admin"
                                  THEN IF filled
                                       THEN RunResult(added.result[2], <<"add_user">>, page')
                                       ELSE RunResult("Please fill all fields", <<>>, page')
                                  ELSE RunResult("", <<>>, page'))
        /\ UNCHANGED <<users_writable, data_writable, procs>>

\* the Logout button: the three keys are deleted and the script runs again
LogoutClick ==
    LET ss == StateDel(Gate(session_state), {"logged_in", "username", "role"})
    IN  /\ "logout" \in page.widgets
        /\ users_file' = Constructed.users
        /\ data_file' = Constructed.data
        /\ session_state' = Gate(ss)
        /\ page' = Render(ss, FALSE, Constructed.data)
        /\ last' = Called("logout", <<>>, RunResult("", <<>>, page'))
        /\ UNCHANGED <<users_writable, data_writable, procs>>

\* the User Management button of the Admin Panel
UserManagementClick ==
    LET ss == StateSet(Gate(session_state), "show_user_management",
                       ~StateGet(session_state, "show_user_management", FALSE))
    IN  /\ "user_management" \in page.widgets
        /\ users_file' = Constructed.users
        /\ data_file' = Constructed.data
        /\ session_state' = ss
        /\ page' = Render(ss, page.show_data, Constructed.data)
        /\ last' = Called("user_management", <<>>, RunResult("", <<>>, page'))
        /\ UNCHANGED <<users_writable, data_writable, procs>>

\* the Add User button of user_management
AddUserSubmit(username, password, role, email) ==
    LET added == add_user(Constructed.users, users_writable, username, password,
                          role, email)
        filled == username # "" /\ password # ""
    IN  /\ "add_user_form" \in page.widgets
        /\ users_file' = IF filled THEN added.file ELSE Constructed.users
        /\ data_file' = Constructed.data
        /\ session_state' = Gate(session_state)
        /\ page' = Render(session_state, page.show_data, Constructed.data)
        /\ last' = Called("add_user_form", <<username, password, role, email>>,
                          IF filled
                          THEN RunResult(added.result[2], <<"add_user", "get_users">>,
                                         page')
                          ELSE RunResult("Please fill all required fields",
                                         <<"get_users">>, page'))
        /\ UNCHANGED <<users_writable, data_writable, procs>>

\* the Submit Information button of the registration form
FormSubmit(form) ==
    LET missing == missing_fields(form)
        saved == save_data(Constructed.data, data_writable,
                           form_data(form, PyStr(Chars(session_state["username"]))))
    IN  /\ "yoka_info_form" \in page.widgets
        /\ users_file' = Constructed.users
        /\ data_file' = IF missing # <<>> THEN Constructed.data ELSE saved.file
        /\ session_state' = Gate(session_state)
        /\ page' = Render(session_state, page.show_data, data_file')
        /\ last' = Called("submit", form,
                          IF missing # <<>>
                          THEN [RunResult("Please fill in the following required fields: ",
                                          <<>>, page') EXCEPT !.missing = missing]
                          ELSE RunResult("Information submitted successfully!",
                                         <<"save_data">>, page'))
        /\ UNCHANGED <<users_writable, data_writable, procs>>

\* the Show Submitted Data checkbox of the Data Management section
ShowDataClick ==
    /\ "show_submitted_data" \in page.widgets
    /\ users_file' = Constructed.users
    /\ data_file' = Constructed.data
    /\ session_state' = Gate(session_state)
    /\ page' = Render(session_state, ~page.show_data, Constructed.data)
    /\ last' = Called("show_submitted_data", <<>>, RunResult("", <<>>, page'))
    /\ UNCHANGED <<users_writable, data_writable, procs>>

\* the Download Data as CSV button
DownloadClick ==
    /\ "download" \in page.widgets
    /\ users_file' = Constructed.users
    /\ data_file' = Constructed.data
    /\ session_state' = Gate(session_state)
    /\ page' = Render(session_state, page.show_data, Constructed.data)
    /\ last' = Called("download", <<>>, RunResult("", <<>>, page'))
    /\ UNCHANGED <<users_writable, data_writable, procs>>

AppForms ==
    FormsOf({PyStr(<<"0", "2", ",", "0", "5">>)}, {PyStr(<<"a", ",", "b">>)},
            {PyStr(<<>>)})

NextApp ==
    \/ OpenPage
    \/ \E widget \in {"login", "clear", "create_admin"},
          username \in {"admin", "bob", ""}, password \in {"admin123", "pw1", ""} :
          LoginPageRun(widget, username, password, "")
    \/ LogoutClick
    \/ UserManagementClick
    \/ \E username \in {"bob", ""}, password \in {"pw1", ""}, role \in Roles :
          AddUserSubmit(username, password, role, "")
    \/ RowCount(data_file) < MaxRows /\ \E form \in AppForms : FormSubmit(form)
    \/ ShowDataClick
    \/ DownloadClick

SpecApp == Init /\ [][NextApp]_vars

(***************************************************************************)
(* The credential store, calls one at a time (Spec).                       *)
(***************************************************************************)
\* the users a reader of users.json gets
Users == json_load(users_file).users

\* C1: add_user with a username already in the credential store returns
\* (False, "Username already exists") and leaves users.json as it was.
C1_DuplicateRejected ==
    [][(last'.op = "add_user" /\ Has(Users, last'.args[1]))
         => /\ last'.result = <<FALSE, "Username already exists">>
            /\ users_file' = users_file]_vars

\* a duplicate add_user with another password, role and email was rejected
C1_Witness ==
    /\ last.op = "add_user"
    /\ last.result = <<FALSE, "Username already exists">>
    /\ last.args[1] = "bob"
    /\ Get(Users, "bob").password # hash_password(last.args[2])
    /\ Get(Users, "bob").role # last.args[3]
    /\ Get(Users, "bob").email # last.args[4]

\* C2: with calls one at a time, a successful add_user(u, p, r, e) makes
\* authenticate(u, p) return (True, r); no later call changes that, and no
\* call changes or removes an entry of the credential store.
C2_CreatedUserAuthenticates ==
    [][/\ (last'.op = "add_user" /\ last'.result[1])
            => authenticate(users_file', last'.args[1], last'.args[2])
                 = <<TRUE, last'.args[3]>>
       /\ users_file' = users_file
          \/ /\ \A u \in Usernames, p \in Passwords :
                   authenticate(users_file, u, p)[1]
                     => authenticate(users_file', u, p)
                          = authenticate(users_file, u, p)
             /\ \A i \in 1..Len(Users) :
                   /\ Has(json_load(users_file').users, Users[i].username)
                   /\ Get(json_load(users_file').users, Users[i].username)
                        = Users[i]]_vars

\* bob, created before al and before a record was appended, authenticates
C2_Witness ==
    /\ last.op = "authenticate"
    /\ last.args = <<"bob", "pw1">>
    /\ last.result = <<TRUE, "user">>
    /\ Len(Users) = 3
    /\ Users[2].username = "bob"
    /\ RowCount(data_file) > 0

\* C3: on a readable credential store authenticate returns (True, role) only
\* for a present username whose stored hash is the hash of the password, and
\* otherwise the one result (False, "Invalid credentials"), for an unknown
\* username and for a wrong password alike.
C3_FailureIsUniform ==
    (last.op = "authenticate" /\ json_load(users_file).ok)
      => IF /\ Has(Users, last.args[1])
            /\ Get(Users, last.args[1]).password = hash_password(last.args[2])
         THEN last.result = <<TRUE, Get(Users, last.args[1]).role>>
         ELSE last.result = <<FALSE, "Invalid credentials">>

\* a present username with a wrong password was refused, while an unknown
\* username gets the same result
C3_Witness ==
    /\ last.op = "authenticate"
    /\ Has(Users, last.args[1])
    /\ Get(Users, last.args[1]).password # hash_password(last.args[2])
    /\ last.result = <<FALSE, "Invalid credentials">>
    /\ \E u \in Usernames :
         ~Has(Users, u) /\ authenticate(users_file, u, last.args[2]) = last.result

\* C4: initialize_users on an absent users.json creates it with the one entry
\* admin (hash of "admin123", role admin), and authenticate("admin",
\* "admin123") then returns (True, "admin"); on an existing users.json it
\* returns normally and leaves the file as it was.
C4_InitializeSeedsOnce ==
    [][last'.op = "initialize_users"
         => IF users_file.exists
            THEN users_file' = users_file /\ last'.result = <<"return">>
            ELSE /\ Len(json_load(users_file').users) = 1
                 /\ json_load(users_file').users[1].username = "admin"
                 /\ json_load(users_file').users[1].password
                      = hash_password("admin123")
                 /\ json_load(users_file').users[1].role = "admin"
                 /\ authenticate(users_file', "admin", "admin123")
                      = <<TRUE, "admin">>]_vars

\* initialize_users ran on a store that was seeded and then grew
C4_Witness ==
    /\ last.op = "initialize_users"
    /\ Len(Users) > 1
    /\ Users[1] = default_users[1]

(***************************************************************************)
(* The credential store under requests that run at the same time           *)
(* (SpecConc).                                                             *)
(***************************************************************************)
AllIdle == \A p \in Procs : procs[p].pc = "idle"

\* C5: once users.json has been initialized, whatever calls of
\* initialize_users, add_user, authenticate and get_users have run and however
\* they interleaved, the credential store holds an entry of role admin and no
\* username twice.  Stated for the states in which every call has returned.
C5_AdminAlwaysPresent ==
    (AllIdle /\ users_file.exists)
      => /\ json_load(users_file).ok
         /\ \E i \in 1..Len(users_file.doc) : users_file.doc[i].role = "admin"
         /\ \A i, j \in 1..Len(users_file.doc) :
              users_file.doc[i].username = users_file.doc[j].username => i = j

\* C9: add_user rewrites the whole of users.json from what it read, with no
\* lock: the document a successful add_user leaves is the dict it read plus
\* its own entry, whatever was written since it read.  Two calls with
\* distinct new usernames can so both succeed and leave one username only.
C9_LastWriteWins ==
    [][\A p \in Procs :
         (procs[p].pc = "add_user_dump" /\ procs'[p].pc = "idle"
            /\ users_file'.valid)
           => /\ users_file'.doc = procs[p].users
              /\ Has(users_file'.doc, procs[p].args[1])
              /\ Get(users_file'.doc, procs[p].args[1])
                   = NewEntry(procs[p].args[1], procs[p].args[2],
                              procs[p].args[3], procs[p].args[4])
              /\ procs'[p].result = <<TRUE, "User created successfully">>]_vars

\* both requests returned success for different usernames, and the readable
\* store holds one of the two
C9_Witness ==
    /\ AllIdle
    /\ \A p \in Procs :
         procs[p].op = "add_user" /\ procs[p].result = <<TRUE, "User created successfully">>
    /\ procs[1].args[1] # procs[2].args[1]
    /\ json_load(users_file).ok
    /\ Cardinality({p \in 1..2 : Has(Users, procs[p].args[1])}) = 1

(***************************************************************************)
(* Missing, emptied and unwritable files (SpecFault).                      *)
(***************************************************************************)
\* C6: with a backing file missing, corrupt or unwritable, no call of the
\* interface raises: add_user and authenticate return (False, message),
\* get_users returns the empty dict, load_data returns an empty table and
\* save_data returns normally.
C6_NoUncaughtFault ==
    /\ last.op = "save_data" => last.result = <<"return">>
    /\ (last.op = "add_user" /\ (~json_load(users_file).ok \/ ~users_writable))
         => (~last.result[1] /\ last.result[2] # "")
    /\ (last.op = "authenticate" /\ ~json_load(users_file).ok)
         => (~last.result[1] /\ last.result[2] # "")
    /\ (last.op = "get_users" /\ ~json_load(users_file).ok) => last.result = <<>>
    /\ (last.op = "load_data" /\ (~data_file.exists \/ ~read_csv(data_file).ok))
         => IsEmpty(last.result.table)

(***************************************************************************)
(* The record store (SpecRec).                                             *)
(***************************************************************************)
\* two cells hold the same value of the same type
CellEq(a, b) == a.t = b.t /\ a.v = b.v

\* C8: after save_data(r), load_data returns a table whose last row equals r
\* field for field, the earlier rows unchanged and in their order.
C8_RoundTrip ==
    [][last'.op = "save_data"
         => LET before == load_data(data_file).table.rows
                after == load_data(data_file').table.rows
            IN  /\ Len(after) = Len(before) + 1
                /\ \A i \in 1..Len(before) : \A j \in 1..Len(before[i]) :
                     CellEq(after[i][j], before[i][j])
                /\ \A j \in 1..Len(last'.args) :
                     PyEq(last'.args[j].value, after[Len(after)][j])]_vars

(***************************************************************************)
(* The page script (SpecApp).                                              *)
(***************************************************************************)
\* the inputs the claim calls required, with the names the form reports
RequiredInputs(form) ==
    << <<"Official Name", form.official_name>>,
       <<"Phone Numbers", form.phone_numbers>>,
       <<"Email", form.email>>,
       <<"School Name", form.school_name>>,
       <<"Program", form.program>>,
       <<"Current Class", form.current_class>>,
       <<"Church Branch", form.church_branch>>,
       <<"Branch Pastor", form.branch_pastor>> >>

\* C7: a submission with an empty required field writes nothing to
\* yoka_data.csv (load_data returns the same rows) and reports the names of
\* the empty fields; one with every required field filled appends one row.
\* (Date of birth and age are never empty: the widgets always hold a value.)
C7_RequiredFields ==
    [][last'.op = "submit"
         => LET form == last'.args
                empty == {k \in 1..Len(RequiredInputs(form)) :
                            RequiredInputs(form)[k][2] = PyStr(<<>>)}
                reported == last'.result.missing
                before == load_data(data_file).table.rows
                after == load_data(data_file').table.rows
            IN  /\ Truthy(form.date_of_birth) /\ Truthy(form.age)
                /\ IF empty # {}
                   THEN /\ after = before
                        /\ "save_data" \notin {last'.result.calls[i] :
                                                 i \in 1..Len(last'.result.calls)}
                        /\ {reported[i] : i \in 1..Len(reported)}
                             = {RequiredInputs(form)[k][1] : k \in empty}
                   ELSE Len(after) = Len(before) + 1]_vars

\* a submission without an email was refused after one row had been saved
C7_Witness ==
    /\ last.op = "submit"
    /\ last.args.email = PyStr(<<>>)
    /\ last.result.missing = <<"Email">>
    /\ RowCount(data_file) = 1

\* C10: the submitted data is displayed, and offered for download, only to a
\* session that is logged in with role admin.
C10_DataManagementAdminOnly ==
    ("show_submitted_data" \in page.widgets \/ "download" \in page.widgets)
      => /\ {"logged_in", "role"} \subseteq DOMAIN session_state
         /\ session_state["logged_in"]
         /\ session_state["role"] = "admin"

(***************************************************************************)
(* One browser session among others: session_state and page are the        *)
(* session's, every run of its script is one step, and procs are the Add   *)
(* User runs of other sessions that are logged in as admin (the script of   *)
(* each session runs in a thread of its own), taken through add_user's     *)
(* read, open and dump.                                                    *)
(***************************************************************************)
OtherAdminAddUser(p, username) ==
    /\ authenticate(users_file, "admin", "admin123") = <<TRUE, "admin">>
    /\ AddUserLoad(p, username, "pw1", "user", "")

NextSessions ==
    \/ OpenPage
    \/ \E widget \in {"login", "clear", "create_admin"},
          username \in {"admin", "bob"}, password \in {"admin123", "pw1"} :
          LoginPageRun(widget, username, password, "")
    \/ LogoutClick
    \/ \E p \in Procs, username \in {"bob", "al"} : OtherAdminAddUser(p, username)
    \/ \E p \in Procs : AddUserOpen(p)
    \/ \E p \in Procs : AddUserDump(p)

SpecSessions == Init /\ [][NextSessions]_vars

\* the calls a run's handlers made
CallsOf(result) == {result.calls[i] : i \in 1..Len(result.calls)}

LoggedInAs(ss, role) ==
    /\ {"logged_in", "role"} \subseteq DOMAIN ss
    /\ ss["logged_in"]
    /\ ss["role"] = role

SessionMatchesStore(ss, file) ==
    ("logged_in" \in DOMAIN ss /\ ss["logged_in"])
      => /\ {"username", "role"} \subseteq DOMAIN ss
         /\ Has(json_load(file).users, ss["username"])
         /\ Get(json_load(file).users, ss["username"]).role = ss["role"]

\* C12: a logged-in session holds username and role, its username is in the
\* credential store with the session's role; the session becomes logged in
\* only in a Login run whose authenticate call succeeded; after Logout the
\* three keys are gone (logged_in is set again to false by the gate) and
\* the login page is shown.
C12_SessionConsistent ==
    [][/\ SessionMatchesStore(session_state', users_file')
       /\ (~LoggedInAs(session_state, "admin") /\ ~LoggedInAs(session_state, "user")
            /\ (LoggedInAs(session_state', "admin") \/ LoggedInAs(session_state', "user")))
             => /\ last'.op = "login"
                /\ "authenticate" \in CallsOf(last'.result)
                /\ authenticate(users_file', last'.args[1], last'.args[2])
                     = <<TRUE, session_state'["role"]>>
                /\ session_state'["username"] = last'.args[1]
       /\ last'.op = "logout"
             => /\ DOMAIN session_state' \cap {"username", "role"} = {}
                /\ ~session_state'["logged_in"]
                /\ page'.name = "login"]_vars

====
